---- MODULE Spec2Model ----
(***************************************************************************)
(* Weak-label pipeline of app/main.py: engineer_weak_labels,               *)
(* train_baseline_model and main.                                          *)
(*                                                                         *)
(* A DataFrame is a sequence of rows, each row a function from column      *)
(* name to value.  NaN is the integer NaN (-1) in numeric columns; every   *)
(* comparison with NaN is false, as in IEEE arithmetic.  Quantiles are     *)
(* kept as exact scaled integers (value * denominator).  final_score is    *)
(* an IEEE double, kept as tenths plus a rounding error (see Float).       *)
(***************************************************************************)
EXTENDS Integers, Sequences, FiniteSets, TLC

VARIABLES pc, train_csv, df, err, files, ret

vars == <<pc, train_csv, df, err, files, ret>>

\* ------------------------------------------------------------------ bounds
MaxRows == 4

\* Tables are also loaded as Copies-fold repetitions of a base table, so that
\* tables large enough for the stratified split are among the inputs.
Copies == {1, 3}

NaN == -1

\* ------------------------------------------------------------ input tables
RECURSIVE Doc(_)
\* a text of k words separated by single blanks
Doc(k) == IF k = 0 THEN <<>>
          ELSE IF k = 1 THEN <<"w">>
          ELSE Doc(k - 1) \o <<" ", "w">>

Missing == [isna |-> TRUE, text |-> <<>>]
Str(s) == [isna |-> FALSE, text |-> s]

ContentSeq == << Missing,
                 Str(<<>>),
                 Str(<<" ", "w", " ", " ", "w", " ">>),
                 Str(Doc(9)),
                 Str(Doc(11)) >>

PriceSeq == <<1, 2, 100>>

ColumnSets == { {"catalog_content", "price"}, {"catalog_content"}, {"price"} }

NumTypes(cols) ==
    (IF "catalog_content" \in cols THEN Len(ContentSeq) ELSE 1)
  * (IF "price" \in cols THEN Len(PriceSeq) ELSE 1)

\* the i-th kind of input row over the columns cols
RecType(cols, i) ==
    LET np == IF "price" \in cols THEN Len(PriceSeq) ELSE 1
        c  == ContentSeq[((i - 1) \div np) + 1]
        p  == PriceSeq[((i - 1) % np) + 1]
    IN  [col \in cols |-> IF col = "catalog_content" THEN c ELSE p]

RECURSIVE SortedIdx(_, _)
\* non-decreasing sequences of length n over 1..m (row order is irrelevant
\* to every statistic of the pipeline)
SortedIdx(n, m) ==
    IF n = 0 THEN { <<>> }
    ELSE UNION { { Append(s, k) : k \in (IF s = <<>> THEN 1 ELSE s[Len(s)])..m } :
                 s \in SortedIdx(n - 1, m) }

Rep(rows, c) ==
    SubSeq([i \in 1..(Len(rows) * c) |-> rows[((i - 1) % Len(rows)) + 1]],
           1, Len(rows) * c)

Tables(cols) ==
    UNION { { Rep([i \in 1..n |-> RecType(cols, s[i])], c) :
                s \in SortedIdx(n, NumTypes(cols)),
                c \in Copies } :
            n \in 1..MaxRows }

\* ------------------------------------------------------- IEEE-754 doubles
\* A double near a multiple of 0.1 is [t, e]: the real t/10 + e * U with
\* U = 2^-56 / 5.  In these units a double of the binade [2^k, 2^(k+1))
\* is a multiple of G = 5 * 2^(k+4), and t/10 is t * 2^55 units.
RECURSIVE Pow2Mod(_, _)
\* 2^n modulo m, by squaring
Pow2Mod(n, m) ==
    IF n = 0 THEN 1 % m
    ELSE LET h == Pow2Mod(n \div 2, m)
         IN  (h * h * (IF n % 2 = 1 THEN 2 ELSE 1)) % m

RECURSIVE Spacing(_, _, _)
\* the spacing G of the doubles around t/10 + e * U, searched from g upwards
Spacing(t, e, g) ==
    IF 4 * t < g \/ (4 * t = g /\ e < 0) THEN g ELSE Spacing(t, e, 2 * g)

\* round to nearest, ties to even
Round(t, e) ==
    IF t = 0 THEN [t |-> 0, e |-> 0]
    ELSE LET g  == Spacing(t, e, 5)
             m2 == (t * Pow2Mod(55, 2 * g) + e + 2 * g * 64) % (2 * g)
             r  == m2 % g
         IN  IF r = 0 THEN [t |-> t, e |-> e]
             ELSE IF 2 * r < g THEN [t |-> t, e |-> e - r]
             ELSE IF 2 * r > g THEN [t |-> t, e |-> e + (g - r)]
             ELSE IF m2 < g THEN [t |-> t, e |-> e - r]
             ELSE [t |-> t, e |-> e + (g - r)]

\* the double denoted by the decimal literal t/10
Literal(t) == Round(t, 0)

\* k * x for a small integer k and a double x (before rounding it is exact)
FMul(k, x) == Round(k * x.t, k * x.e)

FAdd(x, y) == Round(x.t + y.t, x.e + y.e)

FLe(x, y) == x.t < y.t \/ (x.t = y.t /\ x.e <= y.e)

\* math.ceil of a double
FCeil(x) == IF x.t % 10 = 0
            THEN (x.t \div 10) + (IF x.e > 0 THEN 1 ELSE 0)
            ELSE (x.t \div 10) + 1

\* ------------------------------------------------------------ pandas pieces
RECURSIVE SplitRec(_, _, _, _)
SplitRec(s, i, cur, acc) ==
    IF i > Len(s)
    THEN IF cur = <<>> THEN acc ELSE Append(acc, cur)
    ELSE IF s[i] = " "
         THEN SplitRec(s, i + 1, <<>>, IF cur = <<>> THEN acc ELSE Append(acc, cur))
         ELSE SplitRec(s, i + 1, Append(cur, s[i]), acc)

\* str.split(): the tokens between runs of whitespace
split(s) == SplitRec(s, 1, <<>>, <<>>)

\* .str.split().str.len(): NaN stays NaN
word_count(content) == IF content.isna THEN NaN ELSE Len(split(content.text))

DropNa(vals) == SelectSeq(vals, LAMBDA v : v # NaN)

\* the k-th smallest element of a non-empty sequence (k from 1)
Kth(vals, k) ==
    CHOOSE v \in { vals[i] : i \in DOMAIN vals } :
        /\ Cardinality({ i \in DOMAIN vals : vals[i] < v }) < k
        /\ k <= Cardinality({ i \in DOMAIN vals : vals[i] <= v })

\* Series.quantile(num/den), linear interpolation, NaN skipped; the result
\* is den times the quantile
quantile(series, num, den) ==
    LET vals == DropNa(series)
        n    == Len(vals)
        pos  == (n - 1) * num
        h    == pos \div den
        lo   == Kth(vals, h + 1)
        hi   == Kth(vals, IF h + 2 <= n THEN h + 2 ELSE n)
    IN  IF n = 0 THEN NaN ELSE den * lo + (pos % den) * (hi - lo)

\* the same sequence, with every element evaluated
Eager(f) == SubSeq(f, 1, Len(f))

\* df[name] = vals
AddCol(rows, name, vals) ==
    Eager([i \in DOMAIN rows |-> (name :> vals[i]) @@ rows[i]])

\* df[name]
Column(rows, name) == Eager([i \in DOMAIN rows |-> rows[i][name]])

Columns(rows) == DOMAIN rows[1]

\* ----------------------------------------------------- engineer_weak_labels
\* low_wc and high_wc are 4 times the 25th and 75th percentile
text_score(wc, low_wc, high_wc) ==
    IF wc # NaN /\ low_wc # NaN /\ 4 * wc < low_wc THEN 0
    ELSE IF wc # NaN /\ high_wc # NaN /\ 4 * wc <= high_wc THEN 1
    ELSE 2

\* Q1, Q3 and IQR are 4 times the quartiles; lower and upper are 8 times
\* the fences Q1 - 1.5 * IQR and Q3 + 1.5 * IQR
lower(Q1, IQR) == 2 * Q1 - 3 * IQR

\* the outer fence Q3 + 3.0 * IQR
upper_wide(Q3, IQR) == 2 * Q3 + 6 * IQR

upper(Q3, IQR) == 2 * Q3 + 3 * IQR

\* the fences taken as outside: <= and >= where the code has < and >
price_outlier_inclusive(price, lo, up) == (8 * price <= lo) \/ (8 * price >= up)

price_outlier(price, lo, up) == (8 * price < lo) \/ (8 * price > up)

price_sanity_score(outlier) == IF outlier THEN 0 ELSE 1

RECURSIVE Unique(_)
\* the distinct values of a non-decreasing sequence, in order
Unique(s) ==
    IF Len(s) <= 1 THEN s
    ELSE LET u == Unique(SubSeq(s, 1, Len(s) - 1))
         IN  IF s[Len(s)] = u[Len(u)] THEN u ELSE Append(u, s[Len(s)])

\* pd.qcut(prices, q, duplicates="drop"): the bin edges (q times the
\* quantiles j/q), duplicates dropped.  The differences of the prices of
\* PriceSeq are no multiples of q, so an interpolated edge never falls on a
\* price and the rounding of the doubles does not move a row between bins.
qcut_bins(prices, q) ==
    Unique(Eager([j \in 1..(q + 1) |-> quantile(prices, j - 1, q)]))

\* the category code of a price among the edges: searchsorted from the left,
\* the lowest edge included in the first bin, NaN (-1) outside every bin
qcut_code(price, bins, q) ==
    LET ids0 == Cardinality({ j \in DOMAIN bins : bins[j] < q * price })
        ids  == IF q * price = bins[1] THEN 1 ELSE ids0
    IN  IF ids = Len(bins) \/ ids = 0 THEN NaN ELSE ids - 1

RECURSIVE SumSeq(_)
SumSeq(s) == IF s = <<>> THEN 0 ELSE s[1] + SumSeq(Tail(s))

\* groupby("price_bin")["word_count"].mean(): for the category code c, at
\* index c + 1, the sum and the count of the word counts that are not NaN
\* (count 0: the mean is NaN)
bin_mean_wc(rows, ncat) ==
    Eager([k \in 1..ncat |->
        LET wcs == DropNa([i \in DOMAIN rows |->
                              IF rows[i]["price_bin"] = k - 1
                              THEN rows[i]["word_count"] ELSE NaN])
        IN  [num |-> SumSeq(wcs), den |-> Len(wcs)]])

\* wc < mean_wc * 0.9, wc <= mean_wc * 1.1.  The comparison is made on exact
\* rationals; for the word counts of ContentSeq (at most 11) and bins of up
\* to 16 rows the double products decide every comparison the same way.
consistency_score(wc, mean_wc) ==
    IF wc # NaN /\ mean_wc.den # 0 /\ 10 * wc * mean_wc.den < 9 * mean_wc.num
    THEN 0
    ELSE IF wc # NaN /\ mean_wc.den # 0
            /\ 10 * wc * mean_wc.den <= 11 * mean_wc.num
    THEN 1
    ELSE 2

\* the weights of text_score and consistency_score exchanged
final_score_swapped(ts, ps, cs) ==
    FAdd(FAdd(FMul(ts, Literal(3)), FMul(ps, Literal(2))), FMul(cs, Literal(5)))

final_score(ts, ps, cs) ==
    FAdd(FAdd(FMul(ts, Literal(5)), FMul(ps, Literal(2))), FMul(cs, Literal(3)))

\* the upper cut point at 1.5
quality_label_cut15(score) ==
    IF FLe(score, Literal(8)) THEN 0
    ELSE IF FLe(score, Literal(15)) THEN 1
    ELSE 2

\* strict cut points: < 0.8 and < 1.6
quality_label_strict(score) ==
    IF ~ FLe(Literal(8), score) THEN 0
    ELSE IF ~ FLe(Literal(16), score) THEN 1
    ELSE 2

quality_label(score) ==
    IF FLe(score, Literal(8)) THEN 0
    ELSE IF FLe(score, Literal(16)) THEN 1
    ELSE 2

Raised(rows, e) == [df |-> rows, err |-> e]

\* The whole function.  It assigns its columns into the DataFrame it was
\* given and returns that same object; df is the table as the function left
\* it, err the exception it raised ("none": it returned).
engineer_weak_labels(rows) ==
    IF "catalog_content" \notin Columns(rows)
    THEN Raised(rows, "KeyError: catalog_content")
    ELSE IF \A i \in DOMAIN rows : rows[i]["catalog_content"].isna
    THEN Raised(rows, "AttributeError: .str")
    ELSE
    LET wcs     == Eager([i \in DOMAIN rows |->
                             word_count(rows[i]["catalog_content"])])
        d1      == AddCol(rows, "word_count", wcs)
        low_wc  == quantile(wcs, 1, 4)
        high_wc == quantile(wcs, 3, 4)
        d2      == AddCol(d1, "text_score",
                      [i \in DOMAIN rows |-> text_score(wcs[i], low_wc, high_wc)])
    IN
    IF "price" \notin Columns(rows)
    THEN Raised(d2, "KeyError: price")
    ELSE
    LET prices == Column(rows, "price")
        Q1     == quantile(prices, 1, 4)
        Q3     == quantile(prices, 3, 4)
        IQR    == Q3 - Q1
        lo     == lower(Q1, IQR)
        up     == upper(Q3, IQR)
        d3     == AddCol(d2, "price_outlier",
                     [i \in DOMAIN rows |-> price_outlier(prices[i], lo, up)])
        d4     == AddCol(d3, "price_sanity_score",
                     [i \in DOMAIN rows |->
                         price_sanity_score(d3[i]["price_outlier"])])
        bins   == qcut_bins(prices, 5)
        d5     == AddCol(d4, "price_bin",
                     [i \in DOMAIN rows |-> qcut_code(prices[i], bins, 5)])
        means  == bin_mean_wc(d5, Len(bins) - 1)
    IN
    IF \E i \in DOMAIN rows : d5[i]["price_bin"] = NaN
    THEN Raised(d5, "KeyError: nan")
    ELSE
    LET d6 == AddCol(d5, "consistency_score",
                 [i \in DOMAIN rows |->
                     consistency_score(wcs[i], means[d5[i]["price_bin"] + 1])])
        d7 == AddCol(d6, "final_score",
                 [i \in DOMAIN rows |->
                     final_score(d6[i]["text_score"],
                                 d6[i]["price_sanity_score"],
                                 d6[i]["consistency_score"])])
        d8 == AddCol(d7, "quality_label",
                 [i \in DOMAIN rows |-> quality_label(d7[i]["final_score"])])
    IN  Raised(d8, "none")

\* --------------------------------------------------------------- the files
LabeledCsv == "train_with_quality_label.csv"
ModelPkl   == "model_logistic_regression.pkl"
TfidfPkl   == "tfidf_vectorizer.pkl"
ScalerPkl  == "price_scaler.pkl"

Artifacts == {ModelPkl, TfidfPkl, ScalerPkl}

Stopped == pc \in {"done", "failed"}

Fail(e) == /\ pc' = "failed"
           /\ err' = e

\* ------------------------------------------------------------------- main
Init ==
    /\ pc = "read_csv"
    /\ \E cols \in ColumnSets : train_csv \in Tables(cols)
    /\ df = <<>>
    /\ err = "none"
    /\ files = {}
    /\ ret = <<>>

\* pd.read_csv('train.csv')
ReadCsv ==
    /\ pc = "read_csv"
    /\ df' = train_csv
    /\ pc' = "engineer"
    /\ UNCHANGED <<train_csv, err, files, ret>>

ReadCsvFails ==
    /\ pc = "read_csv"
    /\ Fail("FileNotFoundError: train.csv")
    /\ UNCHANGED <<train_csv, df, files, ret>>

\* df = engineer_weak_labels(df): the callee works on the caller's object,
\* so what it assigned before raising stays in df
EngineerWeakLabels ==
    /\ pc = "engineer"
    /\ LET r == engineer_weak_labels(df)
       IN  /\ df' = r.df
           /\ err' = r.err
           /\ pc' = IF r.err = "none" THEN "label_dist" ELSE "failed"
    /\ UNCHANGED <<train_csv, files, ret>>

Labels(rows) == { rows[i]["quality_label"] : i \in DOMAIN rows }

ClassCount(rows, c) ==
    Cardinality({ i \in DOMAIN rows : rows[i]["quality_label"] = c })

\* value_counts(normalize=True).sort_index() and the three label_dist[k]
\* lookups: a label that no row has is not in the index
LabelDist ==
    /\ pc = "label_dist"
    /\ IF {0, 1, 2} \subseteq Labels(df)
       THEN /\ pc' = "to_csv"
            /\ err' = err
       ELSE Fail("KeyError: label_dist")
    /\ UNCHANGED <<train_csv, df, files, ret>>

\* df.to_csv("train_with_quality_label.csv")
ToCsv ==
    /\ pc = "to_csv"
    /\ files' = files \cup {LabeledCsv}
    /\ pc' = "train_split"
    /\ UNCHANGED <<train_csv, df, err, ret>>

ToCsvFails ==
    /\ pc = "to_csv"
    /\ Fail("OSError: train_with_quality_label.csv")
    /\ UNCHANGED <<train_csv, df, files, ret>>

\* --------------------------------------------------- train_baseline_model
\* train_test_split(test_size=0.2, stratify=y): the test part has
\* ceil(0.2 * n) rows; each class needs two members and each part needs a
\* row per class
n_test(n) == FCeil(FMul(n, Literal(2)))

SplitFeasible(rows) ==
    LET n   == Len(rows)
        k   == Cardinality(Labels(rows))
        nte == n_test(n)
    IN  /\ \A c \in Labels(rows) : ClassCount(rows, c) >= 2
        /\ n - nte >= k
        /\ nte >= k

TrainTestSplit ==
    /\ pc = "train_split"
    /\ IF SplitFeasible(df)
       THEN /\ pc' = "tfidf"
            /\ err' = err
       ELSE Fail("ValueError: train_test_split")
    /\ UNCHANGED <<train_csv, df, files, ret>>

\* tfidf.fit_transform / tfidf.transform: a NaN document is rejected
TfidfFit ==
    /\ pc = "tfidf"
    /\ \A i \in DOMAIN df : ~ df[i]["catalog_content"].isna
    /\ pc' = "fit"
    /\ UNCHANGED <<train_csv, df, err, files, ret>>

\* a NaN document, or no term left after min_df=5 / max_df=0.9 pruning
TfidfFails ==
    /\ pc = "tfidf"
    /\ Fail("ValueError: TfidfVectorizer")
    /\ UNCHANGED <<train_csv, df, files, ret>>

\* scaler, hstack, model.fit, predict and the printed report
ModelFit ==
    /\ pc = "fit"
    /\ pc' = "dump_model"
    /\ UNCHANGED <<train_csv, df, err, files, ret>>

Dump(at, file, next) ==
    /\ pc = at
    /\ files' = files \cup {file}
    /\ pc' = next
    /\ UNCHANGED <<train_csv, df, err, ret>>

DumpFails(at, file) ==
    /\ pc = at
    /\ Fail("OSError: joblib.dump")
    /\ UNCHANGED <<train_csv, df, files, ret>>

DumpModel == Dump("dump_model", ModelPkl, "dump_tfidf")
DumpModelFails == DumpFails("dump_model", ModelPkl)
DumpTfidf == Dump("dump_tfidf", TfidfPkl, "dump_scaler")
DumpTfidfFails == DumpFails("dump_tfidf", TfidfPkl)
DumpScaler == Dump("dump_scaler", ScalerPkl, "train_return")
DumpScalerFails == DumpFails("dump_scaler", ScalerPkl)

\* return model, tfidf, scaler; main unpacks three values
TrainReturn ==
    /\ pc = "train_return"
    /\ ret' = <<"model", "tfidf", "scaler">>
    /\ pc' = "done"
    /\ UNCHANGED <<train_csv, df, err, files>>

Next ==
    \/ ReadCsv
    \/ ReadCsvFails
    \/ EngineerWeakLabels
    \/ LabelDist
    \/ ToCsv
    \/ ToCsvFails
    \/ TrainTestSplit
    \/ TfidfFit
    \/ TfidfFails
    \/ ModelFit
    \/ DumpModel
    \/ DumpModelFails
    \/ DumpTfidf
    \/ DumpTfidfFails
    \/ DumpScaler
    \/ DumpScalerFails
    \/ TrainReturn

Spec == Init /\ [][Next]_vars

\* ------------------------------------------- scoring of component triples
\* The last two steps of engineer_weak_labels on tables whose three
\* component columns hold every combination of scores.
MaxScoreRows == 2

ScoreTriples ==
    { [text_score |-> ts, price_sanity_score |-> ps, consistency_score |-> cs] :
        ts \in 0..2, ps \in 0..1, cs \in 0..2 }

InitScore ==
    /\ pc = "final_score"
    /\ df \in UNION { [1..n -> ScoreTriples] : n \in 1..MaxScoreRows }
    /\ train_csv = <<>>
    /\ err = "none"
    /\ files = {}
    /\ ret = <<>>

ScoreFinal ==
    /\ pc = "final_score"
    /\ df' = AddCol(df, "final_score",
                 [i \in DOMAIN df |->
                     final_score(df[i]["text_score"],
                                 df[i]["price_sanity_score"],
                                 df[i]["consistency_score"])])
    /\ pc' = "quality_label"
    /\ UNCHANGED <<train_csv, err, files, ret>>

ScoreLabel ==
    /\ pc = "quality_label"
    /\ df' = AddCol(df, "quality_label",
                 [i \in DOMAIN df |-> quality_label(df[i]["final_score"])])
    /\ pc' = "scored"
    /\ UNCHANGED <<train_csv, err, files, ret>>

NextScore == ScoreFinal \/ ScoreLabel

SpecScore == InitScore /\ [][NextScore]_vars

\* ------------------------------------------------------------- properties
HasCol(name) == Len(df) > 0 /\ name \in DOMAIN df[1]

\* engineer_weak_labels returned
Engineered == HasCol("quality_label")

NumLt(a, b) == a # NaN /\ b # NaN /\ a < b

\* the exact weighted sum, in tenths
ExactSum(r) ==
    5 * r["text_score"] + 2 * r["price_sanity_score"] + 3 * r["consistency_score"]

\* C1: every record has text_score 0 iff its word_count is below the 25th
\* percentile of the table's word counts, 2 iff it is above the 75th, and 1
\* otherwise.
CX_C1 ==
    HasCol("text_score") =>
        LET wcs == Column(df, "word_count")
            p25 == quantile(wcs, 1, 4)
            p75 == quantile(wcs, 3, 4)
        IN  \A i \in DOMAIN df :
                LET below == wcs[i] # NaN /\ NumLt(4 * wcs[i], p25)
                    above == wcs[i] # NaN /\ NumLt(p75, 4 * wcs[i])
                IN  /\ df[i]["text_score"] = 0 <=> below
                    /\ df[i]["text_score"] = 2 <=> above
                    /\ df[i]["text_score"] = 1 <=> (~ below /\ ~ above)

\* C2: quality_label is 0 when the weighted sum is at most 0.8, 1 when it
\* is above 0.8 and at most 1.6, and 2 above 1.6; a sum of exactly 0.8 gives
\* 0 and a sum of exactly 1.6 gives 1.
T_C2 ==
    HasCol("quality_label") =>
        \A i \in DOMAIN df :
            LET x == ExactSum(df[i])
            IN  df[i]["quality_label"] =
                    (IF x <= 8 THEN 0 ELSE IF x <= 16 THEN 1 ELSE 2)

W_C2 ==
    /\ HasCol("quality_label")
    /\ \E i \in DOMAIN df : ExactSum(df[i]) = 8 /\ df[i]["quality_label"] = 0
    /\ \E i \in DOMAIN df : ExactSum(df[i]) = 16 /\ df[i]["quality_label"] = 1

\* C3: price_outlier is true iff the price is below Q1 - 1.5 * IQR or above
\* Q3 + 1.5 * IQR of the table's prices (a price on a fence is no outlier),
\* and price_sanity_score is 1 - price_outlier.
T_C3 ==
    HasCol("price_sanity_score") =>
        LET prices == Column(df, "price")
            q1 == quantile(prices, 1, 4)
            q3 == quantile(prices, 3, 4)
        IN  \A i \in DOMAIN df :
                /\ df[i]["price_outlier"] <=>
                      \/ 8 * prices[i] < 2 * q1 - 3 * (q3 - q1)
                      \/ 8 * prices[i] > 2 * q3 + 3 * (q3 - q1)
                /\ df[i]["price_sanity_score"] =
                      1 - (IF df[i]["price_outlier"] THEN 1 ELSE 0)

W_C3 ==
    /\ Engineered
    /\ \E i \in DOMAIN df :
          df[i]["price_outlier"] /\ df[i]["price_sanity_score"] = 0
    /\ \E i \in DOMAIN df :
          ~ df[i]["price_outlier"] /\ df[i]["price_sanity_score"] = 1

\* the mean word_count of the rows of the bin of row i, as sum and count
BinMean(i) ==
    LET wcs == DropNa([j \in DOMAIN df |->
                          IF df[j]["price_bin"] = df[i]["price_bin"]
                          THEN df[j]["word_count"] ELSE NaN])
    IN  [num |-> SumSeq(wcs), den |-> Len(wcs)]

\* C4: consistency_score is 0 iff word_count < 0.9 * m, 2 iff
\* word_count > 1.1 * m and 1 otherwise, m being the mean word_count of the
\* rows of the record's price_bin.
CX_C4 ==
    HasCol("consistency_score") =>
        \A i \in DOMAIN df :
            LET wc == df[i]["word_count"]
                m  == BinMean(i)
                ok == wc # NaN /\ m.den # 0
                below == ok /\ 10 * wc * m.den < 9 * m.num
                above == ok /\ 10 * wc * m.den > 11 * m.num
            IN  /\ df[i]["consistency_score"] = 0 <=> below
                /\ df[i]["consistency_score"] = 2 <=> above
                /\ df[i]["consistency_score"] = 1 <=> (~ below /\ ~ above)

\* C5: after engineer_weak_labels every record has text_score in 0..2,
\* price_sanity_score in 0..1, consistency_score in 0..2, final_score equal
\* to the weighted sum and between 0.0 and 2.0, and quality_label in 0..2.
T_C5 ==
    Engineered =>
        \A i \in DOMAIN df :
            /\ df[i]["text_score"] \in 0..2
            /\ df[i]["price_sanity_score"] \in 0..1
            /\ df[i]["consistency_score"] \in 0..2
            /\ df[i]["final_score"].t = ExactSum(df[i])
            /\ df[i]["final_score"].e \in -160..160
            /\ FLe(Literal(0), df[i]["final_score"])
            /\ FLe(df[i]["final_score"], Literal(20))
            /\ df[i]["quality_label"] \in 0..2

W_C5 ==
    /\ Engineered
    /\ \E i \in DOMAIN df : df[i]["quality_label"] = 2
    /\ \E i \in DOMAIN df : df[i]["quality_label"] = 0
    /\ \E i \in DOMAIN df : df[i]["text_score"] # df[i]["consistency_score"]

\* C6: word_count is the number of whitespace-separated tokens of
\* catalog_content, and 0 for an empty or a missing catalog_content.
CX_C6 ==
    HasCol("word_count") =>
        \A i \in DOMAIN df :
            /\ df[i]["word_count"] >= 0
            /\ df[i]["word_count"] =
                  (IF df[i]["catalog_content"].isna THEN 0
                   ELSE Len(split(df[i]["catalog_content"].text)))

\* C7: the table the caller passed to engineer_weak_labels is unchanged
\* after the call, also when the call raised.
CX_C7 ==
    (pc # "read_csv" /\ err # "FileNotFoundError: train.csv") => df = train_csv

\* C8: when main has stopped, the labeled table and the three artifacts
\* have all been written, or none of the four has.
CX_C8 ==
    Stopped => (files = {} \/ files = {LabeledCsv} \cup Artifacts)

\* row i is priced at 100 times the median of the other rows, whose prices
\* lie within a factor of two of each other
OutlierScenario(i) ==
    LET others == DropNa([j \in DOMAIN df |->
                             IF j = i THEN NaN ELSE df[j]["price"]])
    IN  /\ Len(others) >= 1
        /\ Kth(others, Len(others)) <= 2 * Kth(others, 1)
        /\ 2 * df[i]["price"] = 100 * quantile(others, 1, 2)

Flagged(i) == df[i]["price_outlier"] /\ df[i]["price_sanity_score"] = 0

\* C9 as stated: in a table of any size >= 2, a record priced at 100 times
\* the median of the otherwise tight prices is flagged as an outlier.
CX_C9 ==
    (HasCol("price_sanity_score") /\ Len(df) >= 2) =>
        \A i \in DOMAIN df : OutlierScenario(i) => Flagged(i)

\* C9 as amended: in a table of at least 4 records, a record priced at 100
\* times the median of the otherwise tight prices is flagged as an outlier.
T_C9 ==
    (HasCol("price_sanity_score") /\ Len(df) >= 4) =>
        \A i \in DOMAIN df : OutlierScenario(i) => Flagged(i)

W_C9 ==
    /\ Engineered
    /\ Len(df) >= 4
    /\ \E i \in DOMAIN df : OutlierScenario(i) /\ Flagged(i)

\* C10: on a table whose prices have duplicate values engineer_weak_labels
\* does not raise, makes at most 5 bins, puts every record in one bin and
\* computes a consistency_score for every record.
CX_C10 ==
    ( /\ pc \notin {"read_csv", "engineer"}
      /\ HasCol("price") /\ HasCol("word_count")
      /\ \E i, j \in DOMAIN df : i # j /\ df[i]["price"] = df[j]["price"] )
    => /\ HasCol("consistency_score")
       /\ \A i \in DOMAIN df : df[i]["price_bin"] \in 0..4

\* the columns of the table that was read
Lacks(name) == Len(train_csv) > 0 /\ name \notin DOMAIN train_csv[1]

\* main is past the call of engineer_weak_labels
Called == pc \notin {"read_csv", "engineer"} /\ err # "FileNotFoundError: train.csv"

\* C11: when the table lacks catalog_content or price, engineer_weak_labels
\* raises an error naming the missing column and main stops there: no
\* labeled table, no training, no artifact.
CX_C11 ==
    (Called /\ (Lacks("catalog_content") \/ Lacks("price"))) =>
        /\ pc = "failed"
        /\ files = {}
        /\ err = (IF Lacks("catalog_content") THEN "KeyError: catalog_content"
                  ELSE "KeyError: price")

\* C12: a labeled table with fewer than 2 distinct labels ends the run in a
\* failure, never in success and never with a persisted model; a labeled
\* table with at least 2 distinct labels does not make the run fail for a
\* class that is absent.
CX_C12 ==
    Engineered =>
        /\ Cardinality(Labels(df)) < 2 =>
              /\ pc # "done"
              /\ ModelPkl \notin files
              /\ Stopped => (pc = "failed" /\ err # "none")
        /\ Cardinality(Labels(df)) >= 2 => err # "KeyError: label_dist"

\* C13: train_baseline_model returns four results: model, vectorizer,
\* scaler and validation metrics.
CX_C13 ==
    pc = "done" => (Len(ret) = 4 /\ ret[4] = "metrics")

Leq3(r, q) ==
    /\ r["text_score"] <= q["text_score"]
    /\ r["price_sanity_score"] <= q["price_sanity_score"]
    /\ r["consistency_score"] <= q["consistency_score"]

\* C14: quality_label is 2 iff text_score = 2, price_sanity_score = 1 and
\* consistency_score = 2; text_score 0 gives label 0; text_score 2 gives a
\* label other than 0; the label does not decrease when a component grows.
T_C14 ==
    HasCol("quality_label") =>
        /\ \A i \in DOMAIN df :
              /\ df[i]["quality_label"] = 2 <=>
                    ( /\ df[i]["text_score"] = 2
                      /\ df[i]["price_sanity_score"] = 1
                      /\ df[i]["consistency_score"] = 2 )
              /\ df[i]["text_score"] = 0 => df[i]["quality_label"] = 0
              /\ df[i]["text_score"] = 2 => df[i]["quality_label"] # 0
        /\ \A i, j \in DOMAIN df :
              Leq3(df[i], df[j]) => df[i]["quality_label"] <= df[j]["quality_label"]

W_C14 ==
    /\ HasCol("quality_label")
    /\ \E i, j \in DOMAIN df :
          /\ ExactSum(df[i]) = 18 /\ df[i]["quality_label"] = 2
          /\ ExactSum(df[j]) = 16 /\ df[j]["price_sanity_score"] = 0
          /\ df[j]["quality_label"] = 1
          /\ Leq3(df[j], df[i])

====
